---- MODULE Spec2Model ----
(***************************************************************************)
(* MedScan: the document ingestion and multi-provider analysis dispatch     *)
(* pipeline.  The client dispatcher (analyzeWithModel), the secure-backend  *)
(* client (analyzeWithBackend / prepareMedicalData), the two client-side    *)
(* provider adapters, the two server-side provider adapters and the two     *)
(* surfaces of the Secure Boundary (the express modelRouter and the         *)
(* serverless handler).                                                     *)
(*                                                                          *)
(* A JavaScript string is a sequence of text tokens; concatenation is \o    *)
(* and String.includes is Includes.                                         *)
(***************************************************************************)
EXTENDS Integers, Sequences, FiniteSets, TLC

(***************************************************************************)
(* Bounds of the model.                                                     *)
(***************************************************************************)
\* the longest file list a request carries
MaxFiles == 6

(***************************************************************************)
(* Program constants.                                                       *)
(***************************************************************************)
MB == 1024 * 1024

MAX_TOTAL_FILE_SIZE == 20 * MB

\* mutant: the secure-backend flag switched off
SecureBackendOff == FALSE

USE_SECURE_BACKEND == TRUE

OpenAI == "openai"

Gemini == "gemini"

ModelProvider == {OpenAI, Gemini}

OPENAI_ENDPOINT == "/models/openai/analyze"

GEMINI_ENDPOINT == "/models/gemini/analyze"

\* the JavaScript value undefined, where a string is expected
Undefined == "<undefined>"

\* !x for a string-valued x
Falsy(x) == x \in {Undefined, ""}

(***************************************************************************)
(* Text.                                                                    *)
(***************************************************************************)
\* the substrings the adapters search error messages for, per text token
TokenIncludes(tok, needle) ==
    CASE tok = "Google AI API key is required." -> needle = "API key"
      [] tok = "Incorrect API key provided: " -> needle = "API key"
      [] tok = "API key not valid. Please pass a valid API key." -> needle = "API key"
      [] tok = "You exceeded your current quota." -> needle = "quota"
      [] tok = "The model was not found." -> needle = "not found"
      [] tok = "Request contains an invalid argument." -> needle = "invalid"
      [] tok = "\". Please try a different file format or a smaller file." -> needle = "format"
      [] OTHER -> FALSE

Includes(msg, needle) == \E i \in 1..Len(msg) : TokenIncludes(msg[i], needle)

\* whether the text s occurs in msg as a whole token (a credential string)
Contains(msg, s) == \E i \in 1..Len(msg) : msg[i] = s

\* (x / (1024 * 1024)).toFixed(2)
toFixed2MB(x) ==
    LET whole == x \div MB
        hundredths == ((x % MB) * 100 + MB \div 2) \div MB
        w == IF hundredths = 100 THEN whole + 1 ELSE whole
        h == IF hundredths = 100 THEN 0 ELSE hundredths
    IN  <<ToString(w), ".", ToString(h \div 10), ToString(h % 10)>>

(***************************************************************************)
(* Files and requests.                                                      *)
(***************************************************************************)
\* the sizes a file of a request has: one byte, or the whole 20 MB
FileSizes == {1, MAX_TOTAL_FILE_SIZE}

SizeLists == UNION {[1..n -> FileSizes] : n \in 0..MaxFiles}

\* a browser File: its size is the size of its content
ClientFile(i, s) ==
    [name |-> <<"scan", ToString(i)>>, type |-> "image/png", size |-> s,
     content |-> <<"bytes", ToString(i)>>]

ClientFiles(sizes) == [i \in 1..Len(sizes) |-> ClientFile(i, sizes[i])]

\* data.files.reduce((sum, file) => sum + file.size, 0)
RECURSIVE SumFrom(_, _)
SumFrom(files, i) ==
    IF i > Len(files) THEN 0 ELSE files[i].size + SumFrom(files, i + 1)

totalSize(files) == SumFrom(files, 1)

\* FileReader.readAsDataURL: "data:<type>;base64,<payload>"
Base64(content) == <<"base64">> \o content

readAsDataURL(file) == <<"data:", file.type, ";base64", ",">> \o Base64(file.content)

\* s.split(",")[1]: the text between the first and the second comma
RECURSIVE UpToComma(_)
UpToComma(s) ==
    IF s = <<>> \/ Head(s) = "," THEN <<>> ELSE <<Head(s)>> \o UpToComma(Tail(s))

RECURSIVE AfterComma(_)
AfterComma(s) ==
    IF s = <<>> THEN <<>> ELSE IF Head(s) = "," THEN Tail(s) ELSE AfterComma(Tail(s))

SplitComma1(s) == UpToComma(AfterComma(s))

\* fileToBase64 when the read loads
fileToBase64(file) == SplitComma1(readAsDataURL(file))

\* a JavaScript value where an array is expected
JsUndefined == [tag |-> "undefined", items |-> <<>>]

JsString == [tag |-> "string", items |-> <<>>]

JsArray(items) == [tag |-> "array", items |-> items]

\* patient fields of a call made in the browser
ClientData ==
    {[patientName |-> "J. Doe", patientAge |-> "42", additionalNotes |-> notes,
      files |-> ClientFiles(sizes)] :
        notes \in {Undefined, "fasting"}, sizes \in SizeLists}

\* the apiKey argument of a client call
ApiKeys == {"", "sk-user", "AIza-user"}

\* a file of a request body: name, type, size and data are the sender's
ServerFile(i, s) ==
    [name |-> <<"scan", ToString(i)>>, type |-> "image/png", size |-> s,
     data |-> Base64(<<"bytes", ToString(i)>>)]

ServerFiles(sizes) == [i \in 1..Len(sizes) |-> ServerFile(i, sizes[i])]

\* a file of a request body whose size field says one byte while its data is
\* the encoding of more than 20 MB
UnderstatedFile(i) ==
    [name |-> <<"scan", ToString(i)>>, type |-> "image/png", size |-> 1,
     data |-> Base64(<<"oversized", ToString(i)>>)]

\* the number of bytes the data field of a request file decodes to
decodedSize(file) ==
    IF file.data[2] = "oversized" THEN MAX_TOTAL_FILE_SIZE + 1 ELSE file.size

\* request bodies an untrusted caller can send
Bodies ==
    {[patientName |-> n, patientAge |-> a, additionalNotes |-> Undefined, files |-> f] :
        n \in {Undefined, "", "J. Doe"}, a \in {Undefined, "", "42"},
        f \in {JsUndefined, JsString, JsArray(<<UnderstatedFile(1)>>)}
                \cup {JsArray(ServerFiles(sizes)) : sizes \in SizeLists}}

(***************************************************************************)
(* Errors and outcomes.                                                     *)
(***************************************************************************)
\* new Error(message)
Err(message) == [isError |-> TRUE, status |-> 0, message |-> message]

NoError == [isError |-> FALSE, status |-> 0, message |-> <<>>]

Threw(e) == [kind |-> "threw", value |-> <<>>, error |-> e]

Returned(v) == [kind |-> "returned", value |-> v, error |-> NoError]

Awaiting == [kind |-> "awaiting", value |-> <<>>, error |-> NoError]

NoOutcome == [kind |-> "none", value |-> <<>>, error |-> NoError]

\* what a provider answers to a call made with credential key
ProviderOutcomes(key) ==
    {[kind |-> "ok", choices |-> 1, text |-> <<"# Medical Analysis Report">>, error |-> NoError],
     [kind |-> "ok", choices |-> 1, text |-> <<>>, error |-> NoError],
     [kind |-> "ok", choices |-> 0, text |-> <<>>, error |-> NoError],
     [kind |-> "error", choices |-> 0, text |-> <<>>,
      error |-> [isError |-> TRUE, status |-> 401,
                 message |-> <<"Incorrect API key provided: ", key>>]],
     [kind |-> "error", choices |-> 0, text |-> <<>>,
      error |-> [isError |-> TRUE, status |-> 429,
                 message |-> <<"You exceeded your current quota.">>]],
     [kind |-> "error", choices |-> 0, text |-> <<>>,
      error |-> [isError |-> TRUE, status |-> 404,
                 message |-> <<"The model was not found.">>]],
     [kind |-> "error", choices |-> 0, text |-> <<>>,
      error |-> [isError |-> TRUE, status |-> 400,
                 message |-> <<"Request contains an invalid argument.">>]],
     [kind |-> "error", choices |-> 0, text |-> <<>>,
      error |-> [isError |-> TRUE, status |-> 500,
                 message |-> <<"Internal server error">>]],
     [kind |-> "error", choices |-> 0, text |-> <<>>, error |-> NoError]}

(***************************************************************************)
(* Prompt Builder.                                                          *)
(***************************************************************************)
\* ${data.additionalNotes ? `- Additional Notes: ${data.additionalNotes}` : ''}
NotesLine(data) ==
    IF Falsy(data.additionalNotes) THEN <<>>
    ELSE <<"- Additional Notes: ", data.additionalNotes>>

PatientBlock(data) ==
    <<"Generate a detailed medical analysis report based on these documents.", "\n",
      "          ", "\n",
      "Patient Information:", "\n",
      "- Name: ", data.patientName, "\n",
      "- Age: ", data.patientAge, "\n">>
    \o NotesLine(data) \o
    <<"\n", "\n",
      "Analyze the attached medical documents and provide a comprehensive report including:", "\n",
      "1. Patient Information", "\n",
      "2. Findings and Observations", "\n",
      "3. Diagnosis (if possible)", "\n",
      "4. Recommendations", "\n",
      "5. Follow-up requirements", "\n", "\n">>

Preamble ==
    <<"You are a medical expert, but not a doctor. Your task is to analyze the attached medical documents and assist the doctor in diagnosing the patient.", "\n",
      "  The doctor's vote is the final answer. But you can help the doctor by providing your analysis and recommendations.", "\n",
      "  ", "\n", "  ">>

\* the server's generateMedicalPrompt
generateMedicalPrompt(data) ==
    Preamble \o PatientBlock(data) \o
    <<"Format the report in Markdown with proper headings, lists, and emphasis where appropriate.">>

\* the client's generateMedicalPrompt (lib/model-service)
clientGenerateMedicalPrompt(data) ==
    Preamble \o PatientBlock(data) \o
    <<"Format the report in Markdown with proper headings, lists, and emphasis where appropriate.",
      "\n", "\n", "NOTE: WE WANT ONLY THE REPORT, NOT ANYTHING ELSE.">>

\* the text block analyzeMedicalDocuments builds inline
inlinePrompt(data) == PatientBlock(data) \o <<"Format the report in Markdown.">>

(***************************************************************************)
(* Size Guard messages.                                                     *)
(***************************************************************************)
serverSizeError(total) ==
    Err(<<"Total file size (">> \o toFixed2MB(total)
        \o <<"MB) exceeds the maximum allowed (20MB).">>)

clientSizeError(total) ==
    Err(<<"Total file size (">> \o toFixed2MB(total)
        \o <<"MB) exceeds the maximum allowed (20MB).",
             " Please reduce file sizes or use fewer files.">>)

(***************************************************************************)
(* A provider call: who makes it, to which provider, with which credential. *)
(***************************************************************************)
NoPending == [by |-> "none", api |-> "none", apiKey |-> "", prompt |-> <<>>, parts |-> <<>>]

ProviderCall(by, api, apiKey, prompt, parts) ==
    [by |-> by, api |-> api, apiKey |-> apiKey, prompt |-> prompt, parts |-> parts]

\* the step of an adapter up to its first await: it throws, or goes on
Proceed == [kind |-> "proceed", value |-> <<>>, error |-> NoError]

(***************************************************************************)
(* Server-side provider adapters (server/services/modelService).            *)
(***************************************************************************)
\* catch (error) { throw error instanceof Error ? error : new Error(...) }
serverCatch(error, fallback) == IF error.isError THEN error ELSE Err(fallback)

\* mutant: analyzeWithOpenAI without its size check
analyzeWithOpenAIBeginNoGuard(data, key) ==
    IF Falsy(key)
    THEN Threw(serverCatch(Err(<<"OpenAI API key not configured on the server.">>),
                           <<"Failed to analyze medical documents with OpenAI.">>))
    ELSE Proceed

\* analyzeWithOpenAI up to the provider call
analyzeWithOpenAIBegin(data, key) ==
    IF Falsy(key)
    THEN Threw(serverCatch(Err(<<"OpenAI API key not configured on the server.">>),
                           <<"Failed to analyze medical documents with OpenAI.">>))
    ELSE IF totalSize(data.files.items) > MAX_TOTAL_FILE_SIZE
    THEN Threw(serverCatch(serverSizeError(totalSize(data.files.items)),
                           <<"Failed to analyze medical documents with OpenAI.">>))
    ELSE Proceed

\* data.files.map(file => ({type: "image_url", image_url: {url: ...}}))
openAIParts(files) ==
    [i \in 1..Len(files) |->
        [type |-> "image_url",
         url |-> <<"data:", files[i].type, ";base64,">> \o files[i].data]]

analyzeWithOpenAICall(data, key) ==
    ProviderCall("server", OpenAI, key, generateMedicalPrompt(data),
                 openAIParts(data.files.items))

\* mutant: analyzeWithOpenAI returning the content as it is
analyzeWithOpenAIEndNoPlaceholder(outcome) ==
    IF outcome.kind = "error"
    THEN Threw(serverCatch(outcome.error,
                           <<"Failed to analyze medical documents with OpenAI.">>))
    ELSE Returned(outcome.text)

\* analyzeWithOpenAI after the provider call settles
analyzeWithOpenAIEnd(outcome) ==
    IF outcome.kind = "error"
    THEN Threw(serverCatch(outcome.error,
                           <<"Failed to analyze medical documents with OpenAI.">>))
    ELSE IF outcome.choices = 0
    THEN Threw(serverCatch(Err(<<"No response received from OpenAI.">>),
                           <<"Failed to analyze medical documents with OpenAI.">>))
    ELSE Returned(IF outcome.text = <<>> THEN <<"No analysis could be generated.">>
                  ELSE outcome.text)

\* mutant: analyzeWithGemini without its credential check
analyzeWithGeminiBeginNoKeyCheck(data, key) ==
    IF totalSize(data.files.items) > MAX_TOTAL_FILE_SIZE
    THEN Threw(serverCatch(serverSizeError(totalSize(data.files.items)),
                           <<"Failed to analyze medical documents with Gemini.">>))
    ELSE Proceed

\* analyzeWithGemini up to the provider call
analyzeWithGeminiBegin(data, key) ==
    IF Falsy(key)
    THEN Threw(serverCatch(Err(<<"Gemini API key not configured on the server.">>),
                           <<"Failed to analyze medical documents with Gemini.">>))
    ELSE IF totalSize(data.files.items) > MAX_TOTAL_FILE_SIZE
    THEN Threw(serverCatch(serverSizeError(totalSize(data.files.items)),
                           <<"Failed to analyze medical documents with Gemini.">>))
    ELSE Proceed

\* data.files.map(file => ({inlineData: {data, mimeType}}))
geminiParts(files) ==
    [i \in 1..Len(files) |-> [data |-> files[i].data, mimeType |-> files[i].type]]

analyzeWithGeminiCall(data, key) ==
    ProviderCall("server", Gemini, key, generateMedicalPrompt(data),
                 geminiParts(data.files.items))

\* analyzeWithGemini after the provider call settles
analyzeWithGeminiEnd(outcome) ==
    IF outcome.kind = "error"
    THEN Threw(serverCatch(outcome.error,
                           <<"Failed to analyze medical documents with Gemini.">>))
    ELSE Returned(IF outcome.text = <<>> THEN <<"No analysis could be generated.">>
                  ELSE outcome.text)

(***************************************************************************)
(* Client-side OpenAI adapter (openai-service).                             *)
(***************************************************************************)
\* apiKey.startsWith("sk-")
StartsWithSk(apiKey) == apiKey \in {"sk-user", "sk-server"}

\* mutant: a catch block that passes every failure through as a provider error
analyzeMedicalDocumentsCatchNoStatus(error) == Err(<<"OpenAI error: ">> \o error.message)

\* the catch block of analyzeMedicalDocuments
analyzeMedicalDocumentsCatch(error) ==
    IF error.isError /\ error.status = 401
    THEN Err(<<"Invalid or expired API key. Please check your OpenAI API key and try again.">>)
    ELSE IF error.isError /\ error.status = 429
    THEN Err(<<"OpenAI API rate limit exceeded. Please try again later.">>)
    ELSE IF error.isError /\ error.status = 404
    THEN Err(<<"The specified model (o3-mini) was not found. Your account might not have access to GPT-4o.">>)
    ELSE IF error.isError /\ error.status = 400
    THEN Err(<<"Invalid request to OpenAI API. Your files may be too large or in an unsupported format.">>)
    ELSE IF error.isError /\ error.message # <<>>
    THEN Err(<<"OpenAI error: ">> \o error.message)
    ELSE IF error.isError
    THEN Err(<<"Error: ">> \o error.message)
    ELSE Err(<<"Failed to analyze medical documents. Please try again.">>)

\* analyzeMedicalDocuments up to the file reads
analyzeMedicalDocumentsBegin(data, apiKey) ==
    IF ~StartsWithSk(apiKey)
    THEN Threw(analyzeMedicalDocumentsCatch(
                 Err(<<"Invalid API key format. OpenAI keys should start with 'sk-'.">>)))
    ELSE IF totalSize(data.files) > MAX_TOTAL_FILE_SIZE
    THEN Threw(analyzeMedicalDocumentsCatch(clientSizeError(totalSize(data.files))))
    ELSE Proceed

\* the error the per-file catch throws
unableToProcess(file) ==
    Err(<<"Unable to process file \"">> \o file.name
        \o <<"\". Please try a different file format or a smaller file.">>)

\* the image_url blocks built from the files once every read has loaded
clientOpenAIParts(files) ==
    [i \in 1..Len(files) |->
        [type |-> "image_url",
         url |-> <<"data:", files[i].type, ";base64,">> \o fileToBase64(files[i])]]

analyzeMedicalDocumentsCall(data, apiKey) ==
    ProviderCall("client", OpenAI, apiKey, inlinePrompt(data), clientOpenAIParts(data.files))

\* analyzeMedicalDocuments after the provider call settles
analyzeMedicalDocumentsEnd(outcome) ==
    IF outcome.kind = "error"
    THEN Threw(analyzeMedicalDocumentsCatch(outcome.error))
    ELSE IF outcome.choices = 0
    THEN Threw(analyzeMedicalDocumentsCatch(
                 Err(<<"No response received from OpenAI. Please try again.">>)))
    ELSE Returned(IF outcome.text = <<>> THEN <<"No analysis could be generated.">>
                  ELSE outcome.text)

(***************************************************************************)
(* Client-side Gemini adapter (gemini-service).                             *)
(***************************************************************************)
\* the catch block of the client's analyzeWithGemini
clientGeminiCatch(error) ==
    IF ~error.isError
    THEN Err(<<"Failed to analyze medical documents. Please try again.">>)
    ELSE IF Includes(error.message, "API key")
    THEN Err(<<"Invalid or missing Google AI API key. Please check your API key and try again.">>)
    ELSE IF Includes(error.message, "quota")
    THEN Err(<<"Google AI API quota exceeded. Please try again later.">>)
    ELSE IF Includes(error.message, "not found") \/ Includes(error.message, "doesn't exist")
    THEN Err(<<"The specified model (gemini-2.0-flash) was not found. Your account might not have access to Gemini 2.0 Flash.">>)
    ELSE IF Includes(error.message, "invalid") \/ Includes(error.message, "format")
    THEN Err(<<"Invalid request to Gemini API. Your files may be too large or in an unsupported format.">>)
    ELSE Err(<<"Gemini error: ">> \o error.message)

\* the client's analyzeWithGemini up to the file reads
clientGeminiBegin(data, apiKey) ==
    IF Falsy(apiKey)
    THEN Threw(clientGeminiCatch(Err(<<"Google AI API key is required.">>)))
    ELSE IF totalSize(data.files) > MAX_TOTAL_FILE_SIZE
    THEN Threw(clientGeminiCatch(clientSizeError(totalSize(data.files))))
    ELSE Proceed

clientGeminiParts(files) ==
    [i \in 1..Len(files) |->
        [data |-> fileToBase64(files[i]), mimeType |-> files[i].type]]

clientGeminiCall(data, apiKey) ==
    ProviderCall("client", Gemini, apiKey, clientGenerateMedicalPrompt(data),
                 clientGeminiParts(data.files))

\* the client's analyzeWithGemini after the provider call settles
clientGeminiEnd(outcome) ==
    IF outcome.kind = "error"
    THEN Threw(clientGeminiCatch(outcome.error))
    ELSE Returned(IF outcome.text = <<>> THEN <<"No analysis could be generated.">>
                  ELSE outcome.text)

(***************************************************************************)
(* Secure-backend client (api-service) and the Dispatcher.                  *)
(***************************************************************************)
\* mutant: the two endpoints of analyzeWithBackend swapped
backendEndpointSwapped(modelProvider) ==
    IF modelProvider = OpenAI THEN GEMINI_ENDPOINT ELSE OPENAI_ENDPOINT

\* the endpoint analyzeWithBackend posts to
backendEndpoint(modelProvider) ==
    IF modelProvider = OpenAI THEN OPENAI_ENDPOINT ELSE GEMINI_ENDPOINT

\* prepareMedicalData once every read has loaded, as the JSON body
prepareMedicalData(data) ==
    [patientName |-> data.patientName,
     patientAge |-> data.patientAge,
     additionalNotes |-> data.additionalNotes,
     files |-> JsArray([i \in 1..Len(data.files) |->
                  [name |-> data.files[i].name, type |-> data.files[i].type,
                   size |-> data.files[i].size, data |-> fileToBase64(data.files[i])]])]

\* the fetch analyzeWithBackend issues
backendFetch(modelProvider, data) ==
    [method |-> "POST", path |-> backendEndpoint(modelProvider),
     body |-> prepareMedicalData(data)]

\* the catch block of analyzeWithBackend
analyzeWithBackendCatch(error, modelProvider) ==
    IF error.isError THEN error ELSE Err(<<"Failed to analyze with ", modelProvider>>)

\* what analyzeWithBackend makes of the backend's response
analyzeWithBackendEnd(response, modelProvider) ==
    IF ~(response.status >= 200 /\ response.status <= 299)
    THEN Threw(analyzeWithBackendCatch(
           Err(IF "error" \in response.body.keys /\ response.body.error # <<>>
               THEN response.body.error
               ELSE <<"API request failed with status ", ToString(response.status)>>),
           modelProvider))
    ELSE Returned(IF "result" \in response.body.keys THEN response.body.result
                  ELSE <<Undefined>>)

\* analyzeWithModel: the function it hands the call to, and the arguments it passes
analyzeWithModel(modelProvider, data, apiKey) ==
    IF USE_SECURE_BACKEND
    THEN [fn |-> "analyzeWithBackend", modelProvider |-> modelProvider, data |-> data,
          apiKey |-> Undefined]
    ELSE CASE modelProvider = OpenAI ->
                [fn |-> "analyzeMedicalDocuments", modelProvider |-> modelProvider,
                 data |-> data, apiKey |-> apiKey]
           [] modelProvider = Gemini ->
                [fn |-> "analyzeWithGemini", modelProvider |-> modelProvider,
                 data |-> data, apiKey |-> apiKey]
           [] OTHER ->
                [fn |-> "throw", modelProvider |-> modelProvider, data |-> data,
                 apiKey |-> Undefined]

(***************************************************************************)
(* Secure Boundary: the express modelRouter and the serverless handler.     *)
(***************************************************************************)
\* mutant: validateRequest without the patientAge check
validateRequestNoAge(body) ==
    \/ Falsy(body.patientName)
    \/ body.files.tag = "undefined"
    \/ body.files.tag # "array"
    \/ Len(body.files.items) = 0

\* the condition under which validateRequest rejects the body
validateRequest(body) ==
    \/ Falsy(body.patientName)
    \/ Falsy(body.patientAge)
    \/ body.files.tag = "undefined"
    \/ body.files.tag # "array"
    \/ Len(body.files.items) = 0

validationError ==
    <<"Invalid request body. Required fields: patientName, patientAge, and at least one file.">>

\* a response: its status and its JSON body, an object with the keys `keys`
ResultBody(result) == [keys |-> {"result"}, result |-> result, error |-> <<>>]

ErrorBody(error) == [keys |-> {"error"}, result |-> <<>>, error |-> error]

EmptyBody == [keys |-> {}, result |-> <<>>, error |-> <<>>]

Response(status, body) == [status |-> status, body |-> body]

\* mutant: the catch branch answers without setting the status
respondNoStatus(outcome) ==
    IF outcome.kind = "returned"
    THEN Response(200, ResultBody(outcome.value))
    ELSE Response(200, ErrorBody(IF outcome.error.isError THEN outcome.error.message
                                 ELSE <<"An unknown error occurred">>))

\* res.status(200).json({ result }) or res.status(500).json({ error: ... })
respond(outcome) ==
    IF outcome.kind = "returned"
    THEN Response(200, ResultBody(outcome.value))
    ELSE Response(500, ErrorBody(IF outcome.error.isError THEN outcome.error.message
                                 ELSE <<"An unknown error occurred">>))

\* res.status(400).json({ error: 'Invalid request body...' })
respondInvalid == Response(400, ErrorBody(validationError))

\* res.status(405).json({ error: 'Method not allowed' })
respondNotAllowed == Response(405, ErrorBody(<<"Method not allowed">>))

\* res.status(200).end()
respondOptions == Response(200, EmptyBody)

\* the handler's own validateRequest
handlerValidateRequest(body) ==
    \/ Falsy(body.patientName)
    \/ Falsy(body.patientAge)
    \/ body.files.tag = "undefined"
    \/ body.files.tag # "array"
    \/ Len(body.files.items) = 0

\* the adapter the router's route for a path calls
routeAdapter(path) ==
    IF path = OPENAI_ENDPOINT THEN "analyzeWithOpenAI" ELSE "analyzeWithGemini"

(***************************************************************************)
(* State.                                                                   *)
(***************************************************************************)
VARIABLES
    OPENAI_API_KEY,   \* the server's process.env.OPENAI_API_KEY
    GEMINI_API_KEY,   \* the server's process.env.GEMINI_API_KEY
    call,             \* the call in progress in the browser
    cpc,              \* where that call stands
    readsStarted,     \* the files of the call whose FileReader read has started
    clientOutcome,    \* what the call returned or threw
    req,              \* the HTTP request at the Secure Boundary
    spc,              \* where the Secure Boundary stands with it
    adapter,          \* the provider adapter invoked, its files and its outcome
    responses,        \* the responses the Secure Boundary sent for req
    net,              \* the network calls made, in order
    pending,          \* the provider call awaiting its answer
    batch,            \* the call whose files the Chunked Encoder is encoding
    bpc,              \* where that call stands
    enc,              \* the fileToBase64 operation of each file of the batch
    order,            \* the files of the batch in the order their encodings resolved
    issued,           \* the call issued once Promise.all fulfilled, with its files
    batchOutcome,     \* what the call threw when Promise.all rejected
    formFiles,        \* MedScanApp's files state
    isAnalyzing,      \* MedScanApp's isAnalyzing state
    results,          \* MedScanApp's results state
    shownProvider,    \* MedScanApp's modelProvider state
    analysis,         \* the analyzeWithModel call of the latest submission
    toast             \* the toast shown last

\* the state of the dispatch pipeline
mainVars ==
    <<OPENAI_API_KEY, GEMINI_API_KEY, call, cpc, readsStarted, clientOutcome,
      req, spc, adapter, responses, net, pending>>

\* the state of the batch encoding
encVars == <<batch, bpc, enc, order, issued, batchOutcome>>

\* the state of the MedScanApp form
formVars == <<formFiles, isAnalyzing, results, shownProvider, analysis, toast>>

vars ==
    <<OPENAI_API_KEY, GEMINI_API_KEY, call, cpc, readsStarted, clientOutcome,
      req, spc, adapter, responses, net, pending,
      batch, bpc, enc, order, issued, batchOutcome,
      formFiles, isAnalyzing, results, shownProvider, analysis, toast>>

\* useState<string | null>(null)
Null == <<"<null>">>

\* no analyzeWithModel call made by the form yet
NoAnalysis == [state |-> "none", modelProvider |-> "none", files |-> <<>>]

NoToast == [kind |-> "none", message |-> <<>>]

NoCall == [entry |-> "none", fn |-> "none"]

NoReq == [surface |-> "none", method |-> "none", path |-> "none", from |-> "none"]

\* no answer of the provider yet
NoAnswer == [kind |-> "none", choices |-> 0, text |-> <<>>, error |-> NoError]

NoAdapter ==
    [side |-> "none", name |-> "none", files |-> <<>>, outcome |-> NoOutcome,
     answer |-> NoAnswer]

AdapterRun(side, name, files, outcome) ==
    [side |-> side, name |-> name, files |-> files, outcome |-> outcome,
     answer |-> NoAnswer]

NoBatch == [fn |-> "none", modelProvider |-> "none", files |-> <<>>]

NoIssued == [to |-> "none", files |-> <<>>]

NetCall(from, to, payload) == [from |-> from, to |-> to, payload |-> payload]

\* the provider's host, per adapter family
ProviderHost(api) ==
    IF api = OpenAI THEN "api.openai.com" ELSE "generativelanguage.googleapis.com"

Init ==
    /\ OPENAI_API_KEY \in {Undefined, "sk-server"}
    /\ GEMINI_API_KEY \in {Undefined, "AIza-server"}
    /\ call = NoCall
    /\ cpc = "idle"
    /\ readsStarted = {}
    /\ clientOutcome = NoOutcome
    /\ req = NoReq
    /\ spc = "idle"
    /\ adapter = NoAdapter
    /\ responses = <<>>
    /\ net = <<>>
    /\ pending = NoPending
    /\ batch = NoBatch
    /\ bpc = "idle"
    /\ enc = <<>>
    /\ order = <<>>
    /\ issued = NoIssued
    /\ batchOutcome = NoOutcome
    /\ formFiles = <<>>
    /\ isAnalyzing = FALSE
    /\ results = Null
    /\ shownProvider = Gemini
    /\ analysis = NoAnalysis
    /\ toast = NoToast

(***************************************************************************)
(* The browser: a call enters the Dispatcher or an adapter and runs up to   *)
(* its first await.  Promise.all(data.files.map(async ...)) starts the read *)
(* of every file before the first of them loads.                            *)
(***************************************************************************)
\* the adapter's step up to the file reads, for the callee fn
clientBegin(fn, data, apiKey) ==
    IF fn = "analyzeMedicalDocuments" THEN analyzeMedicalDocumentsBegin(data, apiKey)
    ELSE clientGeminiBegin(data, apiKey)

ClientEnter(entry, inv, apiKey) ==
    /\ call' = [entry |-> entry, fn |-> inv.fn, modelProvider |-> inv.modelProvider,
                data |-> inv.data, apiKey |-> apiKey, passedKey |-> inv.apiKey]
    /\ CASE inv.fn = "throw" ->
              /\ cpc' = "threw"
              /\ clientOutcome' = Threw(Err(<<"Unknown model provider: ", inv.modelProvider>>))
              /\ UNCHANGED <<readsStarted, adapter>>
         [] inv.fn = "analyzeWithBackend" ->
              /\ cpc' = "encoding"
              /\ readsStarted' = 1..Len(inv.data.files)
              /\ clientOutcome' = Awaiting
              /\ UNCHANGED adapter
         [] OTHER ->
              LET b == clientBegin(inv.fn, inv.data, inv.apiKey)
              IN  IF b.kind = "threw"
                  THEN /\ cpc' = "threw"
                       /\ clientOutcome' = b
                       /\ adapter' = AdapterRun("client", inv.fn, inv.data.files, b)
                       /\ UNCHANGED readsStarted
                  ELSE /\ cpc' = "encoding"
                       /\ readsStarted' = 1..Len(inv.data.files)
                       /\ clientOutcome' = Awaiting
                       /\ adapter' = AdapterRun("client", inv.fn, inv.data.files, Awaiting)
    /\ UNCHANGED <<encVars, formVars, OPENAI_API_KEY, GEMINI_API_KEY, req, spc, responses, net, pending>>

\* the form, or any caller, calls analyzeWithModel
CallAnalyzeWithModel ==
    /\ cpc = "idle"
    /\ spc = "idle"
    /\ \E modelProvider \in ModelProvider \cup {"claude"}, data \in ClientData, apiKey \in ApiKeys :
        ClientEnter("analyzeWithModel", analyzeWithModel(modelProvider, data, apiKey), apiKey)

\* a caller calls the exported client-side OpenAI adapter
CallAnalyzeMedicalDocuments ==
    /\ cpc = "idle"
    /\ spc = "idle"
    /\ \E data \in ClientData, apiKey \in ApiKeys :
        ClientEnter("analyzeMedicalDocuments",
                    [fn |-> "analyzeMedicalDocuments", modelProvider |-> OpenAI,
                     data |-> data, apiKey |-> apiKey], apiKey)

\* a caller calls the exported client-side Gemini adapter
CallAnalyzeWithGemini ==
    /\ cpc = "idle"
    /\ spc = "idle"
    /\ \E data \in ClientData, apiKey \in ApiKeys :
        ClientEnter("analyzeWithGemini",
                    [fn |-> "analyzeWithGemini", modelProvider |-> Gemini,
                     data |-> data, apiKey |-> apiKey], apiKey)

\* the surfaces of the Secure Boundary that serve a path
Surfaces(path) == IF path = OPENAI_ENDPOINT THEN {"express", "serverless"} ELSE {"express"}

\* the provider call a client-side adapter issues once the files are encoded
clientCall(fn, data, apiKey) ==
    IF fn = "analyzeMedicalDocuments" THEN analyzeMedicalDocumentsCall(data, apiKey)
    ELSE clientGeminiCall(data, apiKey)

\* every read of the call has loaded: the fetch, or the provider call, is issued
FilesEncoded ==
    /\ cpc = "encoding"
    /\ IF call.fn = "analyzeWithBackend"
       THEN LET f == backendFetch(call.modelProvider, call.data)
            IN  /\ \E surface \in Surfaces(f.path) :
                      req' = [surface |-> surface, method |-> f.method, path |-> f.path,
                              body |-> f.body, from |-> "client"]
                /\ spc' = "received"
                /\ net' = Append(net, NetCall("client", f.path, f))
                /\ cpc' = "fetching"
                /\ UNCHANGED pending
       ELSE LET c == clientCall(call.fn, call.data, call.passedKey)
            IN  /\ pending' = c
                /\ net' = Append(net, NetCall("client", ProviderHost(c.api), c))
                /\ cpc' = "calling"
                /\ UNCHANGED <<req, spc>>
    /\ UNCHANGED <<encVars, formVars, OPENAI_API_KEY, GEMINI_API_KEY, call, readsStarted, clientOutcome,
                   adapter, responses>>

\* the catch block of the client-side adapter fn
clientCatch(fn, error) ==
    IF fn = "analyzeMedicalDocuments" THEN analyzeMedicalDocumentsCatch(error)
    ELSE clientGeminiCatch(error)

\* what api-service's fileToBase64 rejects with: the reader's error event, or an Error
BackendReadRejections == {NoError, Err(<<"Failed to convert file to base64">>)}

\* the read of one file fails first: Promise.all rejects
FileReadFails ==
    /\ cpc = "encoding"
    /\ \E i \in readsStarted :
          IF call.fn = "analyzeWithBackend"
          THEN /\ \E e \in BackendReadRejections :
                     clientOutcome' = Threw(analyzeWithBackendCatch(e, call.modelProvider))
               /\ UNCHANGED adapter
          ELSE LET out == Threw(clientCatch(call.fn, unableToProcess(call.data.files[i])))
               IN  /\ clientOutcome' = out
                   /\ adapter' = [adapter EXCEPT !.outcome = out]
    /\ cpc' = "threw"
    /\ UNCHANGED <<encVars, formVars, OPENAI_API_KEY, GEMINI_API_KEY, call, readsStarted, req, spc,
                   responses, net, pending>>

\* the client-side adapter's step after the provider call settles
clientEnd(fn, outcome) ==
    IF fn = "analyzeMedicalDocuments" THEN analyzeMedicalDocumentsEnd(outcome)
    ELSE clientGeminiEnd(outcome)

\* the provider answers a call made from the browser
ClientProviderResponds ==
    /\ cpc = "calling"
    /\ pending.by = "client"
    /\ \E o \in ProviderOutcomes(pending.apiKey) :
          LET out == clientEnd(call.fn, o)
          IN  /\ clientOutcome' = out
              /\ adapter' = [adapter EXCEPT !.outcome = out, !.answer = o]
              /\ cpc' = out.kind
    /\ pending' = NoPending
    /\ UNCHANGED <<encVars, formVars, OPENAI_API_KEY, GEMINI_API_KEY, call, readsStarted, req, spc,
                   responses, net>>

\* the backend's response reaches analyzeWithBackend
ClientReceivesResponse ==
    /\ cpc = "fetching"
    /\ spc = "responded"
    /\ LET out == analyzeWithBackendEnd(responses[1], call.modelProvider)
       IN  /\ clientOutcome' = out
           /\ cpc' = out.kind
    /\ UNCHANGED <<encVars, formVars, OPENAI_API_KEY, GEMINI_API_KEY, call, readsStarted, req, spc,
                   adapter, responses, net, pending>>

(***************************************************************************)
(* The Secure Boundary.                                                     *)
(***************************************************************************)
\* the requests an untrusted caller can send to the two surfaces
HttpRequests ==
    {[surface |-> "express", method |-> "POST", path |-> p, body |-> b, from |-> "external"] :
        p \in {OPENAI_ENDPOINT, GEMINI_ENDPOINT}, b \in Bodies}
    \cup
    {[surface |-> "serverless", method |-> m, path |-> OPENAI_ENDPOINT, body |-> b,
      from |-> "external"] : m \in {"OPTIONS", "GET", "POST"}, b \in Bodies}

ExternalRequest ==
    /\ cpc = "idle"
    /\ spc = "idle"
    /\ req' \in HttpRequests
    /\ spc' = "received"
    /\ UNCHANGED <<encVars, formVars, OPENAI_API_KEY, GEMINI_API_KEY, call, cpc, readsStarted, clientOutcome,
                   adapter, responses, net, pending>>

\* the server-side adapter's step up to the provider call
serverBegin(name, data) ==
    IF name = "analyzeWithOpenAI" THEN analyzeWithOpenAIBegin(data, OPENAI_API_KEY)
    ELSE analyzeWithGeminiBegin(data, GEMINI_API_KEY)

serverCall(name, data) ==
    IF name = "analyzeWithOpenAI" THEN analyzeWithOpenAICall(data, OPENAI_API_KEY)
    ELSE analyzeWithGeminiCall(data, GEMINI_API_KEY)

serverEnd(name, outcome) ==
    IF name = "analyzeWithOpenAI" THEN analyzeWithOpenAIEnd(outcome)
    ELSE analyzeWithGeminiEnd(outcome)

\* the route calls the adapter `name` with the request body
InvokeAdapter(name) ==
    LET b == serverBegin(name, req.body)
    IN  IF b.kind = "threw"
        THEN /\ adapter' = AdapterRun("server", name, req.body.files.items, b)
             /\ responses' = Append(responses, respond(b))
             /\ spc' = "responded"
             /\ UNCHANGED <<net, pending>>
        ELSE LET c == serverCall(name, req.body)
             IN  /\ adapter' = AdapterRun("server", name, req.body.files.items, Awaiting)
                 /\ pending' = c
                 /\ net' = Append(net, NetCall("server", ProviderHost(c.api), c))
                 /\ spc' = "awaiting"
                 /\ UNCHANGED responses

\* modelRouter: validateRequest, then the route of the path
RouterHandle ==
    /\ spc = "received"
    /\ req.surface = "express"
    /\ IF validateRequest(req.body)
       THEN /\ responses' = Append(responses, respondInvalid)
            /\ spc' = "responded"
            /\ UNCHANGED <<adapter, net, pending>>
       ELSE InvokeAdapter(routeAdapter(req.path))
    /\ UNCHANGED <<encVars, formVars, OPENAI_API_KEY, GEMINI_API_KEY, call, cpc, readsStarted, clientOutcome, req>>

\* the serverless handler of the OpenAI endpoint
ServerlessHandle ==
    /\ spc = "received"
    /\ req.surface = "serverless"
    /\ IF req.method = "OPTIONS"
       THEN /\ responses' = Append(responses, respondOptions)
            /\ spc' = "responded"
            /\ UNCHANGED <<adapter, net, pending>>
       ELSE IF req.method # "POST"
       THEN /\ responses' = Append(responses, respondNotAllowed)
            /\ spc' = "responded"
            /\ UNCHANGED <<adapter, net, pending>>
       ELSE IF handlerValidateRequest(req.body)
       THEN /\ responses' = Append(responses, respondInvalid)
            /\ spc' = "responded"
            /\ UNCHANGED <<adapter, net, pending>>
       ELSE InvokeAdapter("analyzeWithOpenAI")
    /\ UNCHANGED <<encVars, formVars, OPENAI_API_KEY, GEMINI_API_KEY, call, cpc, readsStarted, clientOutcome, req>>

\* the provider answers a call made by a server-side adapter
ServerProviderResponds ==
    /\ spc = "awaiting"
    /\ pending.by = "server"
    /\ \E o \in ProviderOutcomes(pending.apiKey) :
          LET out == serverEnd(adapter.name, o)
          IN  /\ adapter' = [adapter EXCEPT !.outcome = out, !.answer = o]
              /\ responses' = Append(responses, respond(out))
    /\ spc' = "responded"
    /\ pending' = NoPending
    /\ UNCHANGED <<encVars, formVars, OPENAI_API_KEY, GEMINI_API_KEY, call, cpc, readsStarted, clientOutcome,
                   req, net>>

\* the round is over: the next call or request starts from a clean slate
Reset ==
    /\ \/ cpc \in {"returned", "threw"}
       \/ cpc = "idle" /\ spc = "responded"
    /\ call' = NoCall
    /\ cpc' = "idle"
    /\ readsStarted' = {}
    /\ clientOutcome' = NoOutcome
    /\ req' = NoReq
    /\ spc' = "idle"
    /\ adapter' = NoAdapter
    /\ responses' = <<>>
    /\ net' = <<>>
    /\ pending' = NoPending
    /\ UNCHANGED <<encVars, formVars, OPENAI_API_KEY, GEMINI_API_KEY>>

Next ==
    \/ CallAnalyzeWithModel
    \/ CallAnalyzeMedicalDocuments
    \/ CallAnalyzeWithGemini
    \/ FilesEncoded
    \/ FileReadFails
    \/ ClientProviderResponds
    \/ ClientReceivesResponse
    \/ ExternalRequest
    \/ RouterHandle
    \/ ServerlessHandle
    \/ ServerProviderResponds
    \/ Reset

Spec == Init /\ [][Next]_vars

(***************************************************************************)
(* The Chunked Encoder (fileToBase64 of openai-service and gemini-service)   *)
(* and the plain encoder of api-service, one operation per file of a call,  *)
(* all started by Promise.all(data.files.map(async ...)).                   *)
(*                                                                          *)
(* The content of a Blob is a list of byte ranges of file contents; the     *)
(* byte string it holds is that list with adjacent ranges joined.           *)
(***************************************************************************)
\* the longest file list of a call whose encoding is followed file by file
MaxBatch == 2

FILE_SIZE_WARNING_THRESHOLD == 5 * MB

chunkSize == 1024 * 1024

Min(a, b) == IF a < b THEN a ELSE b

\* the bytes [from, to) of a content
Range(content, from, to) == [content |-> content, from |-> from, to |-> to]

\* the bytes of a whole File
fileBytes(file) == <<Range(file.content, 0, file.size)>>

\* mutant: a slice that loses its last byte
sliceShort(file, start, end) == <<Range(file.content, start, Min(end, file.size) - 1)>>

\* file.slice(start, end)
slice(file, start, end) == <<Range(file.content, start, Min(end, file.size))>>

\* new Blob(chunks): the parts of the chunks, one chunk after the other
RECURSIVE concatChunks(_)
concatChunks(chunks) ==
    IF chunks = <<>> THEN <<>> ELSE Head(chunks) \o concatChunks(Tail(chunks))

\* the byte string a list of ranges holds: empty ranges dropped, adjacent ones joined
RECURSIVE Bytes(_)
Bytes(parts) ==
    IF parts = <<>> THEN <<>>
    ELSE IF parts[1].from >= parts[1].to THEN Bytes(Tail(parts))
    ELSE IF Len(parts) = 1 THEN parts
    ELSE IF parts[2].from >= parts[2].to
    THEN Bytes(<<parts[1]>> \o SubSeq(parts, 3, Len(parts)))
    ELSE IF parts[1].content = parts[2].content /\ parts[1].to = parts[2].from
    THEN Bytes(<<[parts[1] EXCEPT !.to = parts[2].to]>> \o SubSeq(parts, 3, Len(parts)))
    ELSE <<parts[1]>> \o Bytes(Tail(parts))

\* the base64 text of a byte string, and the byte string of a base64 text
btoa(parts) == [base64 |-> Bytes(parts)]

atob(text) == text.base64

NoPayload == [base64 |-> <<>>]

\* reader.readAsDataURL(blob): "data:<type>;base64," followed by the base64 text
blobAsDataURL(type, parts) == [prefix |-> <<"data:", type, ";base64">>, payload |-> btoa(parts)]

\* result.split(",")[1] of such a data URL
dataURLPayload(url) == url.payload

\* one fileToBase64 operation: its promise, its reader chain (the read that is
\* outstanding, the chunk reads started, the chunks pushed, the bytes processed,
\* the progress lines logged) and its timer
EncOp(path, stage, timer) ==
    [path |-> path, stage |-> stage, start |-> 0, chunks |-> <<>>, started |-> <<>>,
     finals |-> 0, processedSize |-> 0, reports |-> <<>>, timer |-> timer,
     promise |-> "pending", value |-> NoPayload, error |-> NoError, calls |-> 1]

\* mutant: a resolve that overwrites a settled promise
resolveSettled(op, v) == [op EXCEPT !.promise = "resolved", !.value = v]

\* resolve and reject of the operation's promise: a settled promise stays as it is
resolve(op, v) ==
    IF op.promise = "pending"
    THEN [op EXCEPT !.promise = "resolved", !.value = v]
    ELSE op

reject(op, e) ==
    IF op.promise = "pending"
    THEN [op EXCEPT !.promise = "rejected", !.error = e]
    ELSE op

\* mutant: the chunked path taken from the threshold on
isLargeFileFromThreshold(file) == file.size >= FILE_SIZE_WARNING_THRESHOLD

\* file.size > FILE_SIZE_WARNING_THRESHOLD
isLargeFile(file) == file.size > FILE_SIZE_WARNING_THRESHOLD

\* what reader.onerror rejects with, per encoder and stage
readerError(fn, op) ==
    IF fn = "analyzeWithBackend" THEN NoError
    ELSE IF op.stage = "chunk" THEN Err(<<"Error reading chunk: ", "Unknown error">>)
    ELSE IF op.stage = "final"
    THEN Err(<<"Error converting combined chunks: ", "Unknown error">>)
    ELSE Err(<<"File reading error: ", "Unknown error">>)

timeoutError == Err(<<"File reading timed out. The file may be too large.">>)

\* mutant: a chunk twice as long
chunkEndDouble(file, start) == Min(start + 2 * chunkSize, file.size)

\* readChunk(start): const end = Math.min(start + chunkSize, file.size)
chunkEnd(file, start) == Min(start + chunkSize, file.size)

\* readChunk(start): the slice [start, end) is handed to a new FileReader
readChunk(file, op, start) ==
    [op EXCEPT !.stage = "chunk", !.start = start,
               !.started = Append(op.started, slice(file, start, chunkEnd(file, start)))]

\* fileToBase64 of openai-service and gemini-service up to its first read: the
\* first chunk, or the whole file, is being read and the 60 s timer is armed
chunkedFileToBase64(file) ==
    IF isLargeFile(file) THEN readChunk(file, EncOp("chunked", "chunk", "armed"), 0)
    ELSE EncOp("single", "single", "armed")

\* fileToBase64 of api-service up to its read: no timer
plainFileToBase64(file) == EncOp("single", "single", "none")

\* Math.round((processedSize / file.size) * 100)
progressOf(processedSize, size) == (200 * processedSize + size) \div (2 * size)

\* if (progress % 20 === 0) console.log(...)
logProgress(reports, progress) ==
    IF progress % 20 = 0 THEN Append(reports, progress) ELSE reports

\* reader.onload of a chunk: push it, count its bytes, log the progress, then
\* read the next chunk or the combined blob
chunkOnload(file, op) ==
    LET end == chunkEnd(file, op.start)
        processed == op.processedSize + (end - op.start)
        loaded == [op EXCEPT !.chunks = Append(op.chunks, slice(file, op.start, end)),
                             !.processedSize = processed,
                             !.reports = logProgress(op.reports,
                                                     progressOf(processed, file.size))]
    IN  IF end < file.size
        THEN readChunk(file, loaded, end)
        ELSE [loaded EXCEPT !.start = end, !.stage = "final", !.finals = op.finals + 1]

\* finalReader.onload: the combined blob as base64
finalReaderOnload(file, op) ==
    [resolve(op, dataURLPayload(blobAsDataURL(file.type, concatChunks(op.chunks))))
        EXCEPT !.stage = "done"]

\* reader.onload of the one-pass read
readerOnload(file, op) ==
    [resolve(op, dataURLPayload(blobAsDataURL(file.type, fileBytes(file))))
        EXCEPT !.stage = "done"]

\* reader.onerror: the promise is rejected and no further read is started
readerOnerror(fn, op) == [reject(op, readerError(fn, op)) EXCEPT !.stage = "stopped"]

\* the setTimeout callback: reject, and nothing else
timeoutCallback(op) == [reject(op, timeoutError) EXCEPT !.timer = "fired"]

\* the fileToBase64 a function calls for each of its files
encBegin(fn, file) ==
    IF fn = "analyzeWithBackend" THEN plainFileToBase64(file) ELSE chunkedFileToBase64(file)

\* mutant: Promise.allSettled, which waits for every operation and never rejects
promiseAllSettled(ops) ==
    IF \A i \in DOMAIN ops : ops[i].promise # "pending" THEN "fulfilled" ELSE "pending"

\* mutant: Promise.any, which fulfils with the first operation to resolve
promiseAny(ops) ==
    IF \E i \in DOMAIN ops : ops[i].promise = "resolved" THEN "fulfilled" ELSE "pending"

\* Promise.all over the operations of the batch
promiseAll(ops) ==
    IF \E i \in DOMAIN ops : ops[i].promise = "rejected" THEN "rejected"
    ELSE IF \A i \in DOMAIN ops : ops[i].promise = "resolved" THEN "fulfilled"
    ELSE "pending"

\* what the map callback returns for a file once its base64 text is there
encodedPart(fn, file, base64) ==
    IF fn = "analyzeMedicalDocuments"
    THEN [type |-> "image_url", mimeType |-> file.type, name |-> file.name,
          size |-> file.size, data |-> base64]
    ELSE IF fn = "analyzeWithGemini"
    THEN [type |-> "inlineData", mimeType |-> file.type, name |-> file.name,
          size |-> file.size, data |-> base64]
    ELSE [type |-> "file", mimeType |-> file.type, name |-> file.name,
          size |-> file.size, data |-> base64]

\* mutant: the results taken last file first
assembleReversed(fn, files, ops) ==
    [i \in 1..Len(files) |->
        encodedPart(fn, files[Len(files) + 1 - i], ops[Len(files) + 1 - i].value)]

\* the array Promise.all fulfils with: one entry per file, in the order of data.files
assemble(fn, files, ops) ==
    [i \in 1..Len(files) |-> encodedPart(fn, files[i], ops[i].value)]

\* the error the function throws when the operation of `file` rejects with e
batchError(fn, modelProvider, file, e) ==
    IF fn = "analyzeWithBackend" THEN analyzeWithBackendCatch(e, modelProvider)
    ELSE clientCatch(fn, unableToProcess(file))

\* the sizes of the files of a batch: one byte, the threshold, 5.5 MB
EncSizes ==
    {1, FILE_SIZE_WARNING_THRESHOLD, FILE_SIZE_WARNING_THRESHOLD + chunkSize \div 2}

EncSizeLists == UNION {[1..n -> EncSizes] : n \in 1..MaxBatch}

\* the functions that encode files, with the provider each is called for
EncodingCalls ==
    {<<"analyzeMedicalDocuments", OpenAI>>, <<"analyzeWithGemini", Gemini>>,
     <<"analyzeWithBackend", OpenAI>>, <<"analyzeWithBackend", Gemini>>}

\* the key an adapter is called with in a batch
batchKey(fn) == IF fn = "analyzeMedicalDocuments" THEN "sk-user" ELSE "AIza-user"

batchData(files) ==
    [patientName |-> "J. Doe", patientAge |-> "42", additionalNotes |-> Undefined,
     files |-> files]

\* the function runs up to Promise.all: the encoding of every file is started
StartEncoding ==
    /\ bpc = "idle"
    /\ cpc = "idle"
    /\ spc = "idle"
    /\ \E c \in EncodingCalls, sizes \in EncSizeLists :
          LET files == ClientFiles(sizes)
          IN  /\ c[1] # "analyzeWithBackend" =>
                    clientBegin(c[1], batchData(files), batchKey(c[1])).kind = "proceed"
              /\ batch' = [fn |-> c[1], modelProvider |-> c[2], files |-> files]
              /\ enc' = [i \in 1..Len(files) |-> encBegin(c[1], files[i])]
    /\ bpc' = "encoding"
    /\ order' = <<>>
    /\ issued' = NoIssued
    /\ batchOutcome' = Awaiting
    /\ UNCHANGED <<mainVars, formVars>>

\* what the function does once an operation has settled: Promise.all rejects
\* (the function throws), fulfils (the call is issued) or stays pending
Settle(ops, i) ==
    LET p == promiseAll(ops)
    IN  IF bpc = "encoding" /\ p = "rejected"
        THEN /\ bpc' = "threw"
             /\ batchOutcome' =
                    Threw(batchError(batch.fn, batch.modelProvider, batch.files[i],
                                     ops[i].error))
             /\ UNCHANGED issued
        ELSE IF bpc = "encoding" /\ p = "fulfilled"
        THEN /\ bpc' = "called"
             /\ issued' =
                    [to |-> IF batch.fn = "analyzeWithBackend"
                            THEN backendEndpoint(batch.modelProvider)
                            ELSE ProviderHost(batch.modelProvider),
                     files |-> assemble(batch.fn, batch.files, ops)]
             /\ batchOutcome' = Awaiting
        ELSE UNCHANGED <<bpc, issued, batchOutcome>>

\* the files in the order their promises resolved, after a step of file i
resolvedOrder(ops, i) ==
    IF enc[i].promise = "pending" /\ ops[i].promise = "resolved"
    THEN Append(order, i) ELSE order

\* the reader chain and the timer of an operation go on whether or not its
\* promise has settled: nothing cancels them
\* the read of a chunk loads
ChunkLoads ==
    /\ \E i \in DOMAIN enc :
          /\ enc[i].stage = "chunk"
          /\ enc' = [enc EXCEPT ![i] = chunkOnload(batch.files[i], enc[i])]
    /\ UNCHANGED <<batch, bpc, order, issued, batchOutcome>>
    /\ UNCHANGED <<mainVars, formVars>>

\* the read of the combined blob loads
CombinedLoads ==
    /\ \E i \in DOMAIN enc :
          /\ enc[i].stage = "final"
          /\ LET ops == [enc EXCEPT ![i] = finalReaderOnload(batch.files[i], enc[i])]
             IN  /\ enc' = ops
                 /\ order' = resolvedOrder(ops, i)
                 /\ Settle(ops, i)
    /\ UNCHANGED batch
    /\ UNCHANGED <<mainVars, formVars>>

\* the one-pass read of a file loads
SingleLoads ==
    /\ \E i \in DOMAIN enc :
          /\ enc[i].stage = "single"
          /\ LET ops == [enc EXCEPT ![i] = readerOnload(batch.files[i], enc[i])]
             IN  /\ enc' = ops
                 /\ order' = resolvedOrder(ops, i)
                 /\ Settle(ops, i)
    /\ UNCHANGED batch
    /\ UNCHANGED <<mainVars, formVars>>

\* a reader of the operation fires onerror
ReaderErrors ==
    /\ \E i \in DOMAIN enc :
          /\ enc[i].stage \in {"chunk", "final", "single"}
          /\ LET ops == [enc EXCEPT ![i] = readerOnerror(batch.fn, enc[i])]
             IN  /\ enc' = ops
                 /\ Settle(ops, i)
    /\ UNCHANGED <<batch, order>>
    /\ UNCHANGED <<mainVars, formVars>>

\* the 60 s timer of an operation fires
TimeoutFires ==
    /\ \E i \in DOMAIN enc :
          /\ enc[i].timer = "armed"
          /\ LET ops == [enc EXCEPT ![i] = timeoutCallback(enc[i])]
             IN  /\ enc' = ops
                 /\ Settle(ops, i)
    /\ UNCHANGED <<batch, order>>
    /\ UNCHANGED <<mainVars, formVars>>

\* the call is over: the next one starts from a clean slate
EncReset ==
    /\ bpc \in {"called", "threw"}
    /\ batch' = NoBatch
    /\ bpc' = "idle"
    /\ enc' = <<>>
    /\ order' = <<>>
    /\ issued' = NoIssued
    /\ batchOutcome' = NoOutcome
    /\ UNCHANGED <<mainVars, formVars>>

EncNext ==
    \/ StartEncoding
    \/ ChunkLoads
    \/ CombinedLoads
    \/ SingleLoads
    \/ ReaderErrors
    \/ TimeoutFires
    \/ EncReset

\* the encoders with no server behind them
EncInit ==
    /\ Init
    /\ OPENAI_API_KEY = Undefined
    /\ GEMINI_API_KEY = Undefined

EncSpec == EncInit /\ [][EncNext]_vars

\* setTimeout fires its callback: the event loop runs a timer that is due
EncFairSpec == EncSpec /\ WF_vars(TimeoutFires)

(***************************************************************************)
(* The MedScanApp form: the file list, the submission and its analysis.    *)
(***************************************************************************)
\* the most files one drop hands to onDrop in the model
MaxDrop == 2

\* useDropzone's maxFiles option
maxFiles == 5

\* the size limit of onDrop
MAX_UPLOAD_SIZE == 10 * 1024 * 1024

validTypes ==
    {"image/jpeg", "image/png", "image/gif", "application/pdf", "image/tiff",
     "image/bmp", "image/dicom"}

FormFile(i, type, size) == [name |-> <<"scan", ToString(i)>>, type |-> type, size |-> size]

\* the files a user drops
DropFiles ==
    {FormFile(1, "application/pdf", MAX_UPLOAD_SIZE),
     FormFile(2, "text/plain", 1), FormFile(3, "image/png", MAX_UPLOAD_SIZE + 1)}

\* the file lists a drop hands to onDrop
Drops == UNION {[1..n -> DropFiles] : n \in 1..MaxDrop}

Toast(kind, message) == [kind |-> kind, message |-> message]

\* the filter of onDrop
isValidFile(file) == file.type \in validTypes /\ file.size <= MAX_UPLOAD_SIZE

isSkippedFile(file) == ~isValidFile(file)

\* the toast of onDrop for a file it skips
skippedToast(file) ==
    IF file.type \notin validTypes
    THEN Toast("error", <<"Invalid file type: ">> \o file.name)
    ELSE Toast("error", <<"File too large: ">> \o file.name)

\* the toast shown last by onDrop, given the one shown before
onDropToast(acceptedFiles, before) ==
    LET validFiles == SelectSeq(acceptedFiles, isValidFile)
        skipped == SelectSeq(acceptedFiles, isSkippedFile)
    IN  IF Len(skipped) = 0 THEN before
        ELSE IF Len(validFiles) > 0
             THEN Toast("info", <<"Some files were skipped due to invalid format or size">>)
             ELSE skippedToast(skipped[Len(skipped)])

\* mutant: handleFileUpload without the limit
handleFileUploadNoSlice(current, acceptedFiles) == current \o acceptedFiles

\* handleFileUpload: the new files state
handleFileUpload(current, acceptedFiles) ==
    SubSeq(current \o acceptedFiles, 1, Min(5, Len(current) + Len(acceptedFiles)))

\* removeFile: the new files state; index counts from 1 here
removeFile(current, index) ==
    [i \in 1..(Len(current) - 1) |-> IF i < index THEN current[i] ELSE current[i + 1]]

\* `results ? <ResultsView/> : <form/>`
ResultsShown == results \notin {Null, <<>>}

\* what the analyzeWithModel call of a submission can settle with: a report, a
\* falsy result, an Error, a rejection that is no Error
AnalysisOutcomes ==
    {Returned(<<"report">>), Returned(<<>>),
     Threw(Err(<<"Gemini API key not configured on the server.">>)), Threw(NoError)}

\* the user drops files on the form's FileUpload
OnDrop ==
    /\ ~ResultsShown
    /\ \E acceptedFiles \in Drops :
          LET validFiles == SelectSeq(acceptedFiles, isValidFile)
          IN  /\ formFiles' = IF Len(validFiles) > 0
                              THEN handleFileUpload(formFiles, validFiles)
                              ELSE formFiles
              /\ toast' = onDropToast(acceptedFiles, toast)
    /\ UNCHANGED <<isAnalyzing, results, shownProvider, analysis>>
    /\ UNCHANGED <<mainVars, encVars>>

\* the user clicks the remove button of a file
RemoveFile ==
    /\ ~ResultsShown
    /\ \E index \in 1..Len(formFiles) : formFiles' = removeFile(formFiles, index)
    /\ UNCHANGED <<isAnalyzing, results, shownProvider, analysis, toast>>
    /\ UNCHANGED <<mainVars, encVars>>

\* the user submits the form: handleSubmit up to its await
HandleSubmit ==
    /\ ~ResultsShown
    /\ ~isAnalyzing
    /\ \E provider \in ModelProvider :
          IF Len(formFiles) = 0
          THEN /\ toast' = Toast("error", <<"Please upload at least one medical document">>)
               /\ UNCHANGED <<isAnalyzing, shownProvider, analysis>>
          ELSE /\ isAnalyzing' = TRUE
               /\ shownProvider' = provider
               /\ analysis' = [state |-> "pending", modelProvider |-> provider,
                               files |-> formFiles]
               /\ UNCHANGED toast
    /\ UNCHANGED <<formFiles, results>>
    /\ UNCHANGED <<mainVars, encVars>>

\* analyzeWithModel settles: the rest of handleSubmit
AnalysisSettles ==
    /\ analysis.state = "pending"
    /\ \E o \in AnalysisOutcomes :
          /\ analysis' = [analysis EXCEPT !.state = o.kind]
          /\ IF o.kind = "returned"
             THEN /\ results' = o.value
                  /\ toast' = Toast("success", <<"Analysis complete!">>)
             ELSE /\ toast' = Toast("error",
                                    IF o.error.isError THEN o.error.message
                                    ELSE <<"Error analyzing documents. Please try again.">>)
                  /\ UNCHANGED results
    /\ isAnalyzing' = FALSE
    /\ UNCHANGED <<formFiles, shownProvider>>
    /\ UNCHANGED <<mainVars, encVars>>

\* the user clicks New Scan in the results view
ResetForm ==
    /\ ResultsShown
    /\ formFiles' = <<>>
    /\ results' = Null
    /\ UNCHANGED <<isAnalyzing, shownProvider, analysis, toast>>
    /\ UNCHANGED <<mainVars, encVars>>

FormNext ==
    \/ OnDrop
    \/ RemoveFile
    \/ HandleSubmit
    \/ AnalysisSettles
    \/ ResetForm

FormInit ==
    /\ Init
    /\ OPENAI_API_KEY = Undefined
    /\ GEMINI_API_KEY = Undefined

FormSpec == FormInit /\ [][FormNext]_vars

(***************************************************************************)
(* Properties.                                                              *)
(***************************************************************************)
ProviderHosts == {ProviderHost(OpenAI), ProviderHost(Gemini)}

BackendEndpoints == {OPENAI_ENDPOINT, GEMINI_ENDPOINT}

\* the text every Size Guard message starts with
IsSizeMessage(msg) == Contains(msg, "Total file size (")

\* a provider call was issued in this round
ProviderCalled == \E i \in 1..Len(net) : net[i].to \in ProviderHosts

\* C1: in every provider adapter (server analyzeWithOpenAI and analyzeWithGemini,
\* client analyzeMedicalDocuments and analyzeWithGemini), a request whose file
\* sizes sum to more than 20 MB never reaches the provider and ends in an error
\* (the adapter throws; the caller gets a failure); a sum of exactly 20 MB is
\* not rejected by the size guard.
C1_SizeGuardBlocksProvider ==
    adapter.name # "none" =>
        /\ totalSize(adapter.files) > MAX_TOTAL_FILE_SIZE =>
              /\ adapter.outcome.kind = "threw"
              /\ pending = NoPending
              /\ ~ProviderCalled
              /\ adapter.side = "client" => cpc = "threw" /\ clientOutcome.kind = "threw"
              /\ adapter.side = "server" =>
                    /\ spc = "responded"
                    /\ Len(responses) = 1
                    /\ responses[1].status = 500
                    /\ responses[1].body.keys = {"error"}
        /\ totalSize(adapter.files) = MAX_TOTAL_FILE_SIZE =>
              ~IsSizeMessage(adapter.outcome.error.message)

\* C1 witness: a server adapter holding its credential was handed more than
\* 20 MB and threw the size guard's error.
C1_Witness ==
    /\ adapter.side = "server"
    /\ totalSize(adapter.files) > MAX_TOTAL_FILE_SIZE
    /\ adapter.outcome.kind = "threw"
    /\ IsSizeMessage(adapter.outcome.error.message)

\* C2: a call of analyzeWithModel whose files sum to more than 20 MB starts no
\* fileToBase64 read for any of its files, on any path.
C2_NoReadWhenTooLarge ==
    (call.entry = "analyzeWithModel" /\ totalSize(call.data.files) > MAX_TOTAL_FILE_SIZE)
        => readsStarted = {}

\* the two texts of the payload-too-large error for a total
IsPayloadTooLarge(msg, total) ==
    msg \in {serverSizeError(total).message, clientSizeError(total).message}

\* C3: whenever an adapter is handed more than 20 MB, the error it fails with
\* is the payload-too-large error and no other, whatever the credentials.
C3_OnlyPayloadTooLarge ==
    (adapter.name # "none" /\ totalSize(adapter.files) > MAX_TOTAL_FILE_SIZE
        /\ adapter.outcome.kind = "threw")
        => IsPayloadTooLarge(adapter.outcome.error.message, totalSize(adapter.files))

\* C4: analyzeWithModel called with a provider outside {openai, gemini} does no
\* network I/O and starts no read, and fails with the unknown-provider error.
C4_UnknownProviderRejected ==
    (call.entry = "analyzeWithModel" /\ call.modelProvider \notin ModelProvider)
        => /\ net = <<>>
           /\ req = NoReq
           /\ cpc \in {"returned", "threw"} =>
                 clientOutcome =
                     Threw(Err(<<"Unknown model provider: ", call.modelProvider>>))

\* the endpoint, the server adapter and the provider host of a provider
EndpointOf(p) == IF p = OpenAI THEN OPENAI_ENDPOINT ELSE GEMINI_ENDPOINT

ServerAdapterOf(p) == IF p = OpenAI THEN "analyzeWithOpenAI" ELSE "analyzeWithGemini"

\* every network call, request and adapter of the round belongs to provider p
OnlyProvider(p) ==
    /\ \A i \in 1..Len(net) : net[i].to \in {EndpointOf(p), ProviderHost(p)}
    /\ req.surface # "none" => req.path = EndpointOf(p)
    /\ adapter.side = "server" => adapter.name = ServerAdapterOf(p)
    /\ pending.by # "none" => pending.api = p

\* C5: routing is exclusive.  A call dispatched for one provider by
\* analyzeWithModel / analyzeWithBackend reaches only that provider's endpoint,
\* and a request on the router's route of one provider invokes only that
\* provider's adapter and host; never the other provider's.
C5_RoutingExclusive ==
    /\ \A p \in ModelProvider :
          (call.entry = "analyzeWithModel" /\ call.modelProvider = p) => OnlyProvider(p)
    /\ \A p \in ModelProvider :
          (req.surface = "express" /\ req.path = EndpointOf(p)) => OnlyProvider(p)

\* C5 witness: a call dispatched for OpenAI went through the router and its
\* adapter called the OpenAI host.
C5_Witness ==
    /\ call.entry = "analyzeWithModel"
    /\ call.modelProvider = OpenAI
    /\ req.surface = "express"
    /\ adapter.name = "analyzeWithOpenAI"
    /\ ProviderCalled

\* the bodies the Secure Boundary must refuse
InvalidBody(body) ==
    \/ body.patientName \in {Undefined, ""}
    \/ body.patientAge \in {Undefined, ""}
    \/ body.files.tag # "array"
    \/ body.files.items = <<>>

\* C6: the Secure Boundary invokes an adapter only after validation passes.  A
\* POST whose body lacks a non-empty patientName or patientAge, or whose files
\* are absent, not an array or empty, gets 400 with an error and no adapter
\* call; the serverless handler reaches the adapter only for POST (OPTIONS gets
\* 200, any other method 405, neither with an adapter call).
C6_ValidationBeforeAdapter ==
    req.surface # "none" =>
        /\ adapter.side = "server" => (~InvalidBody(req.body) /\ req.method = "POST")
        /\ InvalidBody(req.body) => (~ProviderCalled /\ pending = NoPending)
        /\ (InvalidBody(req.body) /\ req.method = "POST" /\ spc = "responded") =>
              /\ responses[1].status = 400
              /\ responses[1].body.keys = {"error"}
        /\ (req.surface = "serverless" /\ req.method # "POST" /\ spc = "responded") =>
              responses[1].status = (IF req.method = "OPTIONS" THEN 200 ELSE 405)

\* C6 witness: a POST with an empty patientAge and files present was answered 400.
C6_Witness ==
    /\ req.surface = "express"
    /\ req.body.patientName = "J. Doe"
    /\ req.body.patientAge = ""
    /\ req.body.files.tag = "array"
    /\ Len(req.body.files.items) = 1
    /\ spc = "responded"
    /\ responses[1].status = 400

\* C7: every request the Secure Boundary passes to a provider adapter has
\* between one and five files.
C7_AtMostFiveFiles ==
    adapter.side = "server" => (1 <= Len(adapter.files) /\ Len(adapter.files) <= 5)

\* the credentials the server holds
ServerCredentials == {OPENAI_API_KEY, GEMINI_API_KEY} \ {Undefined}

\* C8: no response body of the Secure Boundary contains a configured provider
\* credential, whatever the provider's outcome.
C8_NoCredentialInResponse ==
    \A i \in 1..Len(responses) : \A k \in ServerCredentials :
        /\ ~Contains(responses[i].body.error, k)
        /\ ~Contains(responses[i].body.result, k)

\* the request analyzeWithBackend sends for a provider and the patient data,
\* field by field
SentFor(p, data, sent) ==
    /\ DOMAIN sent = {"method", "path", "body"}
    /\ sent.method = "POST"
    /\ sent.path = (IF p = OpenAI THEN OPENAI_ENDPOINT ELSE GEMINI_ENDPOINT)
    /\ DOMAIN sent.body = {"patientName", "patientAge", "additionalNotes", "files"}
    /\ sent.body.patientName = data.patientName
    /\ sent.body.patientAge = data.patientAge
    /\ sent.body.additionalNotes = data.additionalNotes
    /\ sent.body.files.tag = "array"
    /\ Len(sent.body.files.items) = Len(data.files)
    /\ \A i \in 1..Len(data.files) :
          /\ DOMAIN sent.body.files.items[i] = {"name", "type", "size", "data"}
          /\ sent.body.files.items[i].name = data.files[i].name
          /\ sent.body.files.items[i].type = data.files[i].type
          /\ sent.body.files.items[i].size = data.files[i].size
          /\ sent.body.files.items[i].data = <<"base64">> \o data.files[i].content

\* C9: with the secure backend on, analyzeWithModel invokes no client-side
\* adapter and sends only the backend request, which is determined field by
\* field by the provider and the patient data alone (so two calls that differ
\* only in apiKey send the same request) and whose body holds only patientName,
\* patientAge, additionalNotes and the encoded files.
C9_ApiKeyNeverLeavesBrowser ==
    call.entry = "analyzeWithModel" =>
        /\ call.fn = "analyzeWithBackend"
        /\ adapter.side # "client"
        /\ pending.by # "client"
        /\ \A i \in 1..Len(net) :
              net[i].from = "client" =>
                  /\ net[i].to \in BackendEndpoints
                  /\ SentFor(call.modelProvider, call.data, net[i].payload)
        /\ req.surface # "none" =>
              /\ req.from = "client"
              /\ req.body = net[1].payload.body

\* C9 witness: a call that was given an apiKey has sent its backend request.
C9_Witness ==
    /\ call.entry = "analyzeWithModel"
    /\ call.apiKey = "sk-user"
    /\ Len(call.data.files) = 2
    /\ Len(net) >= 1
    /\ net[1].from = "client"

\* a success carrying only result, or a failure carrying only error
WellFormedResponse(r) ==
    \/ r.status = 200 /\ r.body.keys = {"result"}
    \/ ~(r.status >= 200 /\ r.status <= 299) /\ r.body.keys = {"error"}

\* every request gets at most one response, and exactly one once handled
ExactlyOneResponse ==
    /\ Len(responses) <= 1
    /\ spc = "responded" <=> Len(responses) = 1

\* C10 as stated: every request handled by the Secure Boundary gets exactly one
\* response, a success carrying only result (200) or a failure carrying only
\* error (non-2xx); none carries both and none carries neither.
C10_ResultXorError ==
    /\ ExactlyOneResponse
    /\ \A i \in 1..Len(responses) : WellFormedResponse(responses[i])

\* C10 amended: every request handled by the Secure Boundary gets exactly one
\* response; the response to anything but the serverless handler's OPTIONS
\* preflight is a success carrying only result (200) or a failure carrying
\* only error (non-2xx); no response carries both; the reply to OPTIONS
\* (status 200, empty body) is the only one that carries neither.
C10_ResultXorErrorExceptOptions ==
    /\ ExactlyOneResponse
    /\ \A i \in 1..Len(responses) :
          /\ responses[i].body.keys # {"result", "error"}
          /\ IF req.surface = "serverless" /\ req.method = "OPTIONS"
             THEN responses[i].status = 200 /\ responses[i].body.keys = {}
             ELSE WellFormedResponse(responses[i])

\* C10 witness: a POST was answered 200 with a result and nothing else.
C10_Witness ==
    /\ spc = "responded"
    /\ req.method = "POST"
    /\ Len(responses) = 1
    /\ responses[1].status = 200
    /\ responses[1].body.keys = {"result"}

\* the failure kinds of the Secure Boundary, by the text of the error
IsCredentialProblem(msg) ==
    \/ Contains(msg, "OpenAI API key not configured on the server.")
    \/ Contains(msg, "Gemini API key not configured on the server.")
    \/ Contains(msg, "Incorrect API key provided: ")

\* the adapter of the request failed, and with which error
AdapterThrew == adapter.side = "server" /\ adapter.outcome.kind = "threw"

\* C11: the Secure Boundary maps failure kinds to status classes: a validation
\* or shape error is answered 400, a missing or invalid credential 401 or 403,
\* a payload over 20 MB 413, and a 5xx status is sent only when the provider
\* call itself failed.
C11_StatusByFailureKind ==
    \A i \in 1..Len(responses) :
        LET r == responses[i]
        IN  /\ r.body.error = validationError => r.status = 400
            /\ (AdapterThrew /\ IsCredentialProblem(adapter.outcome.error.message))
                  => r.status \in {401, 403}
            /\ (AdapterThrew /\ IsSizeMessage(adapter.outcome.error.message))
                  => r.status = 413
            /\ r.status >= 500 =>
                  (AdapterThrew /\ adapter.answer.kind \in {"ok", "error"}
                   /\ ~IsCredentialProblem(adapter.outcome.error.message))

\* the text of the EmptyResponse error
IsEmptyResponse(msg) ==
    \/ Contains(msg, "No response received from OpenAI.")
    \/ Contains(msg, "No response received from OpenAI. Please try again.")
    \/ Contains(msg, "No response received from Gemini.")

\* C12: in every provider adapter (OpenAI and Gemini, server and client) a
\* provider call that completes with zero choices or candidates makes the
\* adapter throw the EmptyResponse error; it never returns a value.
C12_ZeroChoicesIsEmptyResponse ==
    (adapter.answer.kind = "ok" /\ adapter.answer.choices = 0) =>
        /\ adapter.outcome.kind = "threw"
        /\ IsEmptyResponse(adapter.outcome.error.message)

\* the file the i-th operation of the batch encodes
FileOf(i) == batch.files[i]

\* the slices [0, 1 MB), [1 MB, 2 MB), ... of a file, the first n of them
expectedChunks(file, n) ==
    [k \in 1..n |->
        <<Range(file.content, (k - 1) * chunkSize, Min(k * chunkSize, file.size))>>]

\* the number of 1 MB chunks of a file
chunkCount(file) == (file.size + chunkSize - 1) \div chunkSize

\* C13: round trip of the encoders.  Whenever a fileToBase64 operation has
\* resolved, below, at and above the 5 MB threshold, decoding its payload gives
\* the content of the file byte for byte; on the chunked path the chunks
\* accumulated so far are exactly the slices [0, 1 MB), [1 MB, 2 MB), ... in
\* order, none skipped or repeated, and all of them once the last is read.
C13_RoundTrip ==
    \A i \in DOMAIN enc :
        /\ enc[i].promise = "resolved" => atob(enc[i].value) = fileBytes(FileOf(i))
        /\ enc[i].path = "chunked" =>
              /\ Len(enc[i].chunks) <= chunkCount(FileOf(i))
              /\ enc[i].chunks = expectedChunks(FileOf(i), Len(enc[i].chunks))
              /\ (enc[i].stage = "final" \/ enc[i].promise = "resolved") =>
                    Len(enc[i].chunks) = chunkCount(FileOf(i))

\* C13 witness: a file of 5.5 MB was read in six chunks and resolved.
C13_Witness ==
    \E i \in DOMAIN enc :
        /\ enc[i].path = "chunked"
        /\ enc[i].promise = "resolved"
        /\ Len(enc[i].chunks) = 6
        /\ FileOf(i).size = FILE_SIZE_WARNING_THRESHOLD + chunkSize \div 2

\* the operations of the Chunked Encoder (openai-service, gemini-service)
ChunkedEncoderOps == IF batch.fn \in {"analyzeMedicalDocuments", "analyzeWithGemini"}
                     THEN DOMAIN enc ELSE {}

\* the chunks of an operation are 1 MB each, the last one at most 1 MB
OneMBChunks(op) ==
    \A k \in 1..Len(op.chunks) :
        /\ Len(op.chunks[k]) = 1
        /\ op.chunks[k][1].to - op.chunks[k][1].from <= chunkSize
        /\ k < Len(op.chunks) => op.chunks[k][1].to - op.chunks[k][1].from = chunkSize

\* C14 as stated: the Chunked Encoder encodes a file of size < 5 MB in one pass
\* and reads a file of size >= 5 MB, exactly 5 MB included, in 1 MB chunks.
C14_ChunkedFromThreshold ==
    \A i \in ChunkedEncoderOps :
        /\ FileOf(i).size < FILE_SIZE_WARNING_THRESHOLD =>
              (enc[i].path = "single" /\ enc[i].chunks = <<>>)
        /\ FileOf(i).size >= FILE_SIZE_WARNING_THRESHOLD =>
              (enc[i].path = "chunked" /\ OneMBChunks(enc[i]))

\* C14 amended: the Chunked Encoder encodes a file of size <= 5 MB, exactly
\* 5 MB included, in one pass and reads a file of size > 5 MB in 1 MB chunks.
C14_ChunkedAboveThreshold ==
    \A i \in ChunkedEncoderOps :
        /\ FileOf(i).size <= FILE_SIZE_WARNING_THRESHOLD =>
              (enc[i].path = "single" /\ enc[i].chunks = <<>>)
        /\ FileOf(i).size > FILE_SIZE_WARNING_THRESHOLD =>
              (enc[i].path = "chunked" /\ OneMBChunks(enc[i]))

\* C14 witness: a file of exactly 5 MB was encoded in one pass.
C14_Witness ==
    \E i \in ChunkedEncoderOps :
        /\ FileOf(i).size = FILE_SIZE_WARNING_THRESHOLD
        /\ enc[i].path = "single"
        /\ enc[i].promise = "resolved"

\* the i-th operation of the batch has started and has not settled
EncodingPending(i) == i \in DOMAIN enc /\ enc[i].promise = "pending"

\* C15: every per-file encoding operation that has started eventually reaches
\* a terminal outcome (resolved or rejected), even if its read never completes,
\* in every encoder, the one of the secure-backend path included.
C15_EncodingTerminates ==
    \A i \in 1..MaxBatch : [](EncodingPending(i) => <>(~EncodingPending(i)))

\* C16: fail fast.  Once the encoding of one file has failed, the function has
\* thrown an error, the provider or backend call is never issued, and no
\* encoding was started a second time, whatever the siblings do afterwards.
C16_FailFast ==
    (\E i \in DOMAIN enc : enc[i].promise = "rejected") =>
        /\ bpc = "threw"
        /\ batchOutcome.kind = "threw"
        /\ batchOutcome.error.isError
        /\ issued = NoIssued
        /\ \A j \in DOMAIN enc : enc[j].calls = 1

\* C16 witness: the first file failed and the second resolved after it.
C16_Witness ==
    /\ Len(enc) = 2
    /\ enc[1].promise = "rejected"
    /\ enc[2].promise = "resolved"
    /\ bpc = "threw"

\* C17: the provider call or backend fetch of a call is issued only when the
\* encoding of every file has resolved; none is issued while a file is still
\* being encoded.
C17_CallAfterAllEncoded ==
    /\ bpc = "called" <=> issued # NoIssued
    /\ issued # NoIssued =>
          \A i \in DOMAIN enc : enc[i].promise = "resolved" /\ enc[i].stage = "done"

\* C17 witness: the call was issued for two files, one of them read in chunks.
C17_Witness ==
    /\ bpc = "called"
    /\ Len(enc) = 2
    /\ enc[1].path = "chunked"
    /\ issued.to = ProviderHost(OpenAI)

\* C18: for every completion order of the encodings, the file sequence handed
\* to the provider or backend has the length and the order of the submitted
\* files: position i holds the encoding of submitted file i.
C18_OrderPreserved ==
    issued # NoIssued =>
        /\ Len(issued.files) = Len(batch.files)
        /\ \A i \in 1..Len(batch.files) :
              /\ issued.files[i].name = FileOf(i).name
              /\ issued.files[i].mimeType = FileOf(i).type
              /\ atob(issued.files[i].data) = fileBytes(FileOf(i))

\* C18 witness: the second file resolved before the first, and the call was issued.
C18_Witness ==
    /\ order = <<2, 1>>
    /\ issued # NoIssued
    /\ Len(issued.files) = 2

\* the prompt an adapter builds for the patient fields
promptOf(by, api, data) ==
    IF by = "server" THEN generateMedicalPrompt(data)
    ELSE IF api = Gemini THEN clientGenerateMedicalPrompt(data)
    ELSE inlinePrompt(data)

\* the patient fields of the provider call in flight
PromptData == IF pending.by = "server" THEN req.body ELSE call.data

\* C19: the prompt is provider independent.  The prompt of every provider call
\* equals, token for token, the prompt the adapter of the other provider on
\* the same side builds from the same patientName, patientAge and
\* additionalNotes, on the server and in the browser.
C19_PromptProviderIndependent ==
    pending.by # "none" =>
        /\ pending.prompt = promptOf(pending.by, OpenAI, PromptData)
        /\ pending.prompt = promptOf(pending.by, Gemini, PromptData)

\* the text of a prompt that follows the line `label` starts, its value and
\* its line break
AfterLine(prompt, label) ==
    LET i == CHOOSE k \in 1..Len(prompt) : prompt[k] = label
    IN  SubSeq(prompt, i + 3, Len(prompt))

\* C20: when additionalNotes is absent, generateMedicalPrompt leaves no notes
\* line and no empty line in its place: what follows the age line is what
\* follows the notes line when notes are present.
C20_NotesLineRemoved ==
    (pending.by # "none" /\ pending.prompt # inlinePrompt(PromptData)
        /\ Falsy(PromptData.additionalNotes)) =>
        /\ ~Contains(pending.prompt, "- Additional Notes: ")
        /\ AfterLine(pending.prompt, "- Age: ") =
              AfterLine(promptOf(pending.by, pending.api,
                                 [PromptData EXCEPT !.additionalNotes = "fasting"]),
                        "- Additional Notes: ")

\* C21: the per-file encoder settles once and its terminal states are
\* absorbing.  While the promise of a Chunked Encoder operation is pending its
\* timer is armed, and the timer firing then rejects it with the timeout error;
\* a resolved promise stays resolved with its value when the timer fires
\* later; a rejected promise stays rejected with its error when a chunk or the
\* final read completes later.
C21_SettlesOnce ==
    [][batch' = batch =>
          \A i \in DOMAIN enc :
              /\ (i \in ChunkedEncoderOps /\ enc[i].promise = "pending")
                    => enc[i].timer = "armed"
              /\ (enc[i].promise = "pending" /\ enc[i].timer = "armed"
                    /\ enc'[i].timer = "fired")
                    => (enc'[i].promise = "rejected" /\ enc'[i].error = timeoutError)
              /\ enc[i].promise = "resolved"
                    => (enc'[i].promise = "resolved" /\ enc'[i].value = enc[i].value)
              /\ enc[i].promise = "rejected"
                    => (enc'[i].promise = "rejected" /\ enc'[i].error = enc[i].error)]_vars

\* C21 witness: an operation that timed out had its final read complete later
\* and is still rejected with the timeout error.
C21_Witness ==
    \E i \in DOMAIN enc :
        /\ enc[i].path = "chunked"
        /\ enc[i].stage = "done"
        /\ enc[i].timer = "fired"
        /\ enc[i].promise = "rejected"
        /\ enc[i].error = timeoutError

\* C22: once the chunked encoding of a file has failed, by the timeout or by a
\* read error, no further chunk read and no final combine read is started for
\* that file.
C22_NoReadAfterFailure ==
    [][batch' = batch =>
          \A i \in DOMAIN enc :
              (enc[i].path = "chunked" /\ enc[i].promise = "rejected")
                  => (enc'[i].started = enc[i].started /\ enc'[i].finals = enc[i].finals)]_vars

\* C23: on the chunked path the chunk reads of a file are sequential.  The
\* reads started are the slices [0, 1 MB), [1 MB, 2 MB), ... in order, each at
\* most 1 MB; at most one is outstanding, and the next starts only when the
\* one before has loaded; there are never more than ceil(size / 1 MB) of them;
\* the final combine read is started once, after the last chunk (the one that
\* ends at file.size) has loaded.
C23_SequentialChunks ==
    \A i \in ChunkedEncoderOps :
        enc[i].path = "chunked" =>
            LET op == enc[i]
                n == Len(op.started)
            IN  /\ 1 <= n
                /\ n <= chunkCount(FileOf(i))
                /\ op.started = expectedChunks(FileOf(i), n)
                /\ \A k \in 1..n : op.started[k][1].to - op.started[k][1].from <= chunkSize
                /\ Len(op.chunks) \in {n - 1, n}
                /\ op.stage = "chunk" => Len(op.chunks) = n - 1
                /\ op.stage \in {"final", "done"} => Len(op.chunks) = n
                /\ op.finals <= 1
                /\ op.finals = 1 <=> op.stage \in {"final", "done"}
                      \/ (op.stage = "stopped" /\ Len(op.chunks) = n)
                /\ op.finals = 1 =>
                      /\ n = chunkCount(FileOf(i))
                      /\ op.started[n][1].to = FileOf(i).size

\* C23 witness: the sixth and last chunk of a 5.5 MB file has loaded and the
\* combined blob is being read.
C23_Witness ==
    \E i \in ChunkedEncoderOps :
        /\ enc[i].stage = "final"
        /\ Len(enc[i].started) = 6
        /\ Len(enc[i].chunks) = 6
        /\ enc[i].started[6][1].to = FileOf(i).size

\* the fractions of a file, in percent, at which progress is to be reported
ProgressMarks == {20, 40, 60, 80, 100}

\* C24: on the chunked path progress is reported at every 20% of the bytes
\* processed: once the bytes processed reach 20, 40, 60, 80 or 100 percent of
\* file.size, a progress line for that mark or a later one has been logged.
C24_ProgressEvery20 ==
    \A i \in ChunkedEncoderOps :
        enc[i].path = "chunked" =>
            \A q \in ProgressMarks :
                100 * enc[i].processedSize >= q * FileOf(i).size =>
                    \E k \in 1..Len(enc[i].reports) : enc[i].reports[k] >= q

\* the client-side adapter was called with a key it accepts
ClientKeyAccepted ==
    IF adapter.name = "analyzeMedicalDocuments" THEN StartsWithSk(call.passedKey)
    ELSE ~Falsy(call.passedKey)

\* a client-side adapter failed on its own account: the size guard, the
\* encoding of a file, or an empty response; not the credential, not the provider
ClientInternalFailure ==
    /\ adapter.side = "client"
    /\ adapter.outcome.kind = "threw"
    /\ ClientKeyAccepted
    /\ adapter.answer.kind # "error"

\* the encoding of a file of the call failed
ClientEncodingFailure == ClientInternalFailure /\ net = <<>>
    /\ totalSize(adapter.files) <= MAX_TOTAL_FILE_SIZE

\* the messages of InvalidCredential, QuotaExceeded, ModelUnavailable,
\* MalformedRequest and ProviderError in the client-side adapters
IsProviderFailureMessage(msg) ==
    \/ msg = <<"Invalid or expired API key. Please check your OpenAI API key and try again.">>
    \/ msg = <<"OpenAI API rate limit exceeded. Please try again later.">>
    \/ msg = <<"The specified model (o3-mini) was not found. Your account might not have access to GPT-4o.">>
    \/ msg = <<"Invalid request to OpenAI API. Your files may be too large or in an unsupported format.">>
    \/ msg = <<"Invalid or missing Google AI API key. Please check your API key and try again.">>
    \/ msg = <<"Google AI API quota exceeded. Please try again later.">>
    \/ msg = <<"The specified model (gemini-2.0-flash) was not found. Your account might not have access to Gemini 2.0 Flash.">>
    \/ msg = <<"Invalid request to Gemini API. Your files may be too large or in an unsupported format.">>
    \/ (msg # <<>> /\ msg[1] \in {"OpenAI error: ", "Gemini error: "})

\* C25: failure kinds survive the catch blocks of the client-side adapters.  A
\* file-encoding failure reaches the caller as an encoding failure, and neither
\* it nor an empty-response or size failure reaches the caller with the message
\* of InvalidCredential, QuotaExceeded, ModelUnavailable, MalformedRequest or
\* ProviderError.
C25_FailureKindPreserved ==
    /\ ClientInternalFailure => ~IsProviderFailureMessage(adapter.outcome.error.message)
    /\ ClientEncodingFailure =>
          Contains(adapter.outcome.error.message, "Unable to process file \"")

\* C26: the client OpenAI adapter classifies a provider failure by its status:
\* 401, 429, 404 and 400 give their fixed messages, any other failure with a
\* message is passed through as "OpenAI error: <message>", and a failed call
\* never returns a value.
C26_OpenAIClassifiesByStatus ==
    (adapter.name = "analyzeMedicalDocuments" /\ adapter.answer.kind = "error") =>
        LET e == adapter.answer.error
            m == adapter.outcome.error.message
        IN  /\ adapter.outcome.kind = "threw"
            /\ cpc = "threw"
            /\ clientOutcome = adapter.outcome
            /\ adapter.outcome.error.isError
            /\ e.status = 401 =>
                  m = <<"Invalid or expired API key. Please check your OpenAI API key and try again.">>
            /\ e.status = 429 =>
                  m = <<"OpenAI API rate limit exceeded. Please try again later.">>
            /\ e.status = 404 =>
                  m = <<"The specified model (o3-mini) was not found. Your account might not have access to GPT-4o.">>
            /\ e.status = 400 =>
                  m = <<"Invalid request to OpenAI API. Your files may be too large or in an unsupported format.">>
            /\ (e.status \notin {401, 429, 404, 400} /\ e.message # <<>>) =>
                  m = <<"OpenAI error: ">> \o e.message

\* C26 witness: a call the provider refused with 429 threw the rate-limit message.
C26_Witness ==
    /\ adapter.name = "analyzeMedicalDocuments"
    /\ adapter.answer.kind = "error"
    /\ adapter.answer.error.status = 429
    /\ clientOutcome.kind = "threw"
    /\ clientOutcome.error.message =
          <<"OpenAI API rate limit exceeded. Please try again later.">>

\* the credential a server-side adapter reads
ServerKeyOf(name) == IF name = "analyzeWithOpenAI" THEN OPENAI_API_KEY ELSE GEMINI_API_KEY

\* the missing-credential error of a server-side adapter
MissingCredentialError(name) ==
    IF name = "analyzeWithOpenAI" THEN Err(<<"OpenAI API key not configured on the server.">>)
    ELSE Err(<<"Gemini API key not configured on the server.">>)

\* C27: when the server holds no credential for a provider, that provider's
\* adapter throws the missing-credential error and makes no provider call,
\* whatever the request.
C27_MissingCredentialFailsFirst ==
    (adapter.side = "server" /\ Falsy(ServerKeyOf(adapter.name))) =>
        /\ adapter.outcome = Threw(MissingCredentialError(adapter.name))
        /\ pending = NoPending
        /\ ~ProviderCalled

\* C27 witness: analyzeWithGemini was called with more than 20 MB while the
\* server held no Gemini key, and threw the missing-credential error.
C27_Witness ==
    /\ adapter.name = "analyzeWithGemini"
    /\ adapter.side = "server"
    /\ GEMINI_API_KEY = Undefined
    /\ totalSize(adapter.files) > MAX_TOTAL_FILE_SIZE
    /\ adapter.outcome.kind = "threw"

\* the bytes the files of a request really carry
RECURSIVE DecodedFrom(_, _)
DecodedFrom(fs, i) ==
    IF i > Len(fs) THEN 0 ELSE decodedSize(fs[i]) + DecodedFrom(fs, i + 1)

C30_SuccessIsNonEmpty ==
    (adapter.name # "none" /\ adapter.outcome.kind = "returned") =>
        /\ adapter.outcome.value # <<>>
        /\ adapter.answer.kind = "ok"
        /\ adapter.answer.text # <<>> => adapter.outcome.value = adapter.answer.text
        /\ adapter.answer.text = <<>> =>
              adapter.outcome.value = <<"No analysis could be generated.">>

\* C30 witness: the server's analyzeWithOpenAI got one choice with empty
\* content and returned the placeholder.
C30_Witness ==
    /\ adapter.name = "analyzeWithOpenAI"
    /\ adapter.answer.kind = "ok"
    /\ adapter.answer.choices = 1
    /\ adapter.answer.text = <<>>
    /\ adapter.outcome = Returned(<<"No analysis could be generated.">>)

\* what holds of the form in every state
C29_FormState ==
    /\ Len(formFiles) <= maxFiles
    /\ isAnalyzing <=> analysis.state = "pending"
    /\ analysis.state # "none" => Len(analysis.files) >= 1
    /\ analysis.state = "threw" => ~ResultsShown

\* what holds of every step of the form
C29_FormStep ==
    /\ (Len(formFiles) = 0
          /\ toast' = Toast("error", <<"Please upload at least one medical document">>))
       => (isAnalyzing' = isAnalyzing /\ analysis' = analysis)
    /\ results' # results =>
          \/ results' = Null
          \/ /\ analysis.state = "pending"
             /\ analysis'.state = "returned"
             /\ toast' = Toast("success", <<"Analysis complete!">>)
    /\ (analysis.state = "pending" /\ analysis'.state = "threw") =>
          (results' = results /\ toast'.kind = "error")
    /\ (analysis.state = "pending" /\ analysis'.state # "pending") => ~isAnalyzing'

\* C29: in the MedScanApp form the file list never holds more than 5 files; a
\* submit with zero files never sets isAnalyzing and never calls
\* analyzeWithModel; results is set only when an analysis succeeded and is left
\* unchanged when it failed, so no report is shown with the error of the same
\* submission; and isAnalyzing is false again after every analysis that settles.
C29_FormInvariants == []C29_FormState /\ [][C29_FormStep]_vars

\* C29 witness: five files are listed, a sixth was cut off, and the analysis of
\* the submission succeeded: its report is set and isAnalyzing is false again.
C29_Witness ==
    /\ Len(formFiles) = maxFiles
    /\ analysis.state = "returned"
    /\ analysis.files = formFiles
    /\ results = <<"report">>
    /\ ~isAnalyzing
    /\ toast = Toast("success", <<"Analysis complete!">>)

====
